---- MODULE Spec2Model ----
(***************************************************************************)
(* Interview session lifecycle of the AI-Recruitor server.                 *)
(*                                                                         *)
(* The state is the in-memory interview store (server/storage.ts), the     *)
(* wall clock read by the handlers, and the last HTTP request handled      *)
(* together with the response it produced (server/routes.ts).              *)
(*                                                                         *)
(* Times are milliseconds relative to the instant the store was            *)
(* constructed (the `now` of seedSampleData).  JavaScript strings on which *)
(* the code calls parseInt / toString are sequences of one-character       *)
(* strings; nullable values are sequences of length 0 (null) or 1.         *)
(*                                                                         *)
(* Every handler reads and writes only the record of the id it is given,   *)
(* so a behaviour follows the requests made for one id, clientId, chosen   *)
(* initially among the seeded ids, the ids of created records, an id no    *)
(* record carries and the empty id.  Each handler is one step: its awaits  *)
(* are on MemStorage, whose promises are already resolved.                 *)
(*                                                                         *)
(* Left out: candidateEmail, which no handler reads, and the GET routes,   *)
(* which change nothing.  durationMinutes is a decimal integer text or     *)
(* empty, as seeded and as createInterview defaults it.                    *)
(*                                                                         *)
(* The voice interview engine (voice-service.ts, src/unnamed/part_001) has *)
(* its own state: the session map, the transcript files on disk, the       *)
(* fs.writeFile calls that have not settled, the number of failed writes   *)
(* logged, and the last response of a voice route.  A send-audio call is   *)
(* two steps: what it does up to the await of its transcript write, and    *)
(* the write settling, after which it answers.  The two engines share no   *)
(* state, so each has its own specification: Spec for the lifecycle,       *)
(* SpecVoice for the voice routes.  The clock stands still in SpecVoice:   *)
(* the engine only copies it into time stamps.                             *)
(***************************************************************************)
EXTENDS Integers, Sequences, FiniteSets, TLC

VARIABLES interviews, now, created, clientId, req, res,
          sessions, files, pending, errors, vres, logins

vars == <<interviews, now, created, clientId, req, res,
          sessions, files, pending, errors, vres, logins>>

----------------------------------------------------------------------------
(* Nullable values *)

Null == <<>>

Some(x) == <<x>>

Truthy(d) == d # Null

----------------------------------------------------------------------------
(* JavaScript numbers and strings *)

NaN == [nan |-> TRUE, v |-> 0]

Num(n) == [nan |-> FALSE, v |-> n]

DigitChars == {"0", "1", "2", "3", "4", "5", "6", "7", "8", "9"}

DigitVal(c) ==
  CASE c = "0" -> 0 [] c = "1" -> 1 [] c = "2" -> 2 [] c = "3" -> 3
    [] c = "4" -> 4 [] c = "5" -> 5 [] c = "6" -> 6 [] c = "7" -> 7
    [] c = "8" -> 8 [] c = "9" -> 9

DigitChar(d) ==
  CASE d = 0 -> "0" [] d = 1 -> "1" [] d = 2 -> "2" [] d = 3 -> "3"
    [] d = 4 -> "4" [] d = 5 -> "5" [] d = 6 -> "6" [] d = 7 -> "7"
    [] d = 8 -> "8" [] d = 9 -> "9"

RECURSIVE StripLeadingWs(_)
StripLeadingWs(s) ==
  IF s = <<>> \/ Head(s) # " " THEN s ELSE StripLeadingWs(Tail(s))

RECURSIVE DigitRunLen(_)
DigitRunLen(s) ==
  IF s = <<>> \/ Head(s) \notin DigitChars THEN 0 ELSE 1 + DigitRunLen(Tail(s))

RECURSIVE DigitsValue(_)
DigitsValue(s) ==
  IF s = <<>> THEN 0
  ELSE DigitsValue(SubSeq(s, 1, Len(s) - 1)) * 10 + DigitVal(s[Len(s)])

\* parseInt(s): leading blanks skipped, optional sign, the longest run of
\* decimal digits; NaN when that run is empty.
ParseInt(s) ==
  LET t   == StripLeadingWs(s)
      neg == t # <<>> /\ Head(t) = "-"
      u   == IF t # <<>> /\ Head(t) \in {"+", "-"} THEN Tail(t) ELSE t
      k   == DigitRunLen(u)
  IN  IF k = 0 THEN NaN
      ELSE Num((IF neg THEN -1 ELSE 1) * DigitsValue(SubSeq(u, 1, k)))

RECURSIVE NatToString(_)
NatToString(n) ==
  IF n < 10 THEN <<DigitChar(n)>>
  ELSE Append(NatToString(n \div 10), DigitChar(n % 10))

\* Number.prototype.toString() of an integer
NumberToString(n) ==
  IF n < 0 THEN <<"-">> \o NatToString(0 - n) ELSE NatToString(n)

\* s || dflt for strings: the empty string is falsy
OrDefault(s, dflt) == IF s = <<>> THEN dflt ELSE s

Min(a, b) == IF a < b THEN a ELSE b

Max(a, b) == IF a > b THEN a ELSE b

\* Math.floor(a / b) for b > 0
FloorDiv(a, b) == a \div b

\* Date.prototype.toISOString(): the instant, as text
ToISOString(t) == [iso |-> t]

----------------------------------------------------------------------------
(* Bounds *)

\* Interviews created through POST /api/interviews
MaxCreated == 1

----------------------------------------------------------------------------
(* Time line *)

Minute == 60 * 1000

Hour == 60 * Minute

Day == 24 * Hour

\* Instants at which requests arrive (the clock only moves forward)
ClockTimes ==
  {0, 10 * Minute, 10 * Minute + 500, 70 * Minute, 70 * Minute + 1,
   2 * Hour, 2 * Hour + 1, Day}

----------------------------------------------------------------------------
(* The interview store: MemStorage *)

Str60 == <<"6", "0">>

Str0 == <<"0">>

Str8 == <<"8">>

\* The four records of seedSampleData, built from the construction instant t
SeedInterviews(t) ==
  LET oneHourFromNow  == t + Hour
      twoHoursFromNow == t + 2 * Hour
      yesterday       == t - Day
      tomorrow        == t + Day
  IN
  [i \in {"INT-DEMO-ACTIVE", "INT-DEMO-FUTURE", "INT-DEMO-EXPIRED", "INT-DEMO-DONE"} |->
    CASE i = "INT-DEMO-ACTIVE" ->
           [id |-> i, password |-> "DEMO1234", candidateName |-> "John Smith",
            role |-> "Senior Software Engineer",
            startTime |-> t, endTime |-> twoHoursFromNow,
            durationMinutes |-> Str60, isUsed |-> FALSE, isStarted |-> FALSE,
            sessionStartedAt |-> Null, sessionDeadline |-> Null,
            currentQuestionIndex |-> Str0]
      [] i = "INT-DEMO-FUTURE" ->
           [id |-> i, password |-> "FUTURE99", candidateName |-> "Sarah Johnson",
            role |-> "Product Manager",
            startTime |-> tomorrow, endTime |-> tomorrow + Hour,
            durationMinutes |-> Str60, isUsed |-> FALSE, isStarted |-> FALSE,
            sessionStartedAt |-> Null, sessionDeadline |-> Null,
            currentQuestionIndex |-> Str0]
      [] i = "INT-DEMO-EXPIRED" ->
           [id |-> i, password |-> "EXPIRED1", candidateName |-> "Mike Wilson",
            role |-> "UX Designer",
            startTime |-> yesterday - Hour, endTime |-> yesterday,
            durationMinutes |-> Str60, isUsed |-> FALSE, isStarted |-> FALSE,
            sessionStartedAt |-> Null, sessionDeadline |-> Null,
            currentQuestionIndex |-> Str0]
      [] i = "INT-DEMO-DONE" ->
           [id |-> i, password |-> "DONE5678", candidateName |-> "Emily Chen",
            role |-> "Data Analyst",
            startTime |-> yesterday - 2 * Hour, endTime |-> yesterday - Hour,
            durationMinutes |-> Str60, isUsed |-> TRUE, isStarted |-> TRUE,
            sessionStartedAt |-> Some(yesterday - 2 * Hour),
            sessionDeadline |-> Some(yesterday - Hour),
            currentQuestionIndex |-> Str8]]

\* storage.getInterview(id): the record, or undefined
GetInterview(store, id) ==
  IF id \in DOMAIN store THEN Some(store[id]) ELSE Null

\* a merge that loses the sessionDeadline of the updates
Merge_WithoutDeadline(existing, updates) ==
  [f \in DOMAIN existing |->
     IF f \in DOMAIN updates \ {"sessionDeadline"}
     THEN updates[f] ELSE existing[f]]

\* { ...existing, ...updates }
Merge(existing, updates) ==
  [f \in DOMAIN existing |->
     IF f \in DOMAIN updates THEN updates[f] ELSE existing[f]]

\* storage.updateInterview(id, updates): the store afterwards
UpdateInterview(store, id, updates) ==
  IF id \notin DOMAIN store THEN store
  ELSE [store EXCEPT ![id] = Merge(store[id], updates)]

\* storage.deleteInterview(id): the store afterwards
DeleteInterview(store, id) ==
  [i \in DOMAIN store \ {id} |-> store[i]]

NoUpdates == <<>>

----------------------------------------------------------------------------
(* Requests and responses *)

Request(op, id, password, isUsed, index, create) ==
  [op |-> op, id |-> id, password |-> password,
   isUsed |-> isUsed, index |-> index, create |-> create]

NoRequest == Request("none", "", "", Null, Null, Null)

\* res.status(s).json({...}): type is "" when the body carries none
Response(status, type, scheduledTime, session, interview) ==
  [status |-> status, type |-> type, scheduledTime |-> scheduledTime,
   session |-> session, interview |-> interview]

NoResponse == Response(0, "", Null, Null, Null)

\* What a handler does: the response it sends and the store it leaves
Outcome(response, store) == [res |-> response, store |-> store]

----------------------------------------------------------------------------
(* POST /api/auth/login *)

\* loginSchema: both strings present and non-empty
LoginSchemaOk(id, password) == id # "" /\ password # ""

\* The password compared only on records not yet used
PasswordMismatch_UnlessUsed(interview, password) ==
  ~interview.isUsed /\ interview.password # password

\* if (interview.password !== password)
PasswordMismatch(interview, password) == interview.password # password

\* The used check left out
AlreadyUsed_Skipped(interview) == FALSE

\* if (interview.isUsed)
AlreadyUsed(interview) == interview.isUsed

\* The started check left out
AlreadyStarted_Skipped(interview) == FALSE

\* if (interview.isStarted && interview.sessionDeadline)
AlreadyStarted(interview) ==
  interview.isStarted /\ Truthy(interview.sessionDeadline)

DurationMinutes(interview) ==
  ParseInt(OrDefault(interview.durationMinutes, Str60)).v

\* The deadline never found passed
SessionDeadlinePassed_Never(t, sessionDeadline) == FALSE

\* The comparison the wrong way round
SessionDeadlinePassed_Inverted(t, sessionDeadline) == t < sessionDeadline

\* if (now > sessionDeadline)
SessionDeadlinePassed(t, sessionDeadline) == t > sessionDeadline

\* The window's start not checked
BeforeStart_Skipped(t, startTime) == FALSE

\* if (now < startTime)
BeforeStart(t, startTime) == t < startTime

\* The window's end not checked
AfterEnd_Skipped(t, endTime) == FALSE

\* if (now > endTime)
AfterEnd(t, endTime) == t > endTime

\* The duration not counted from now
ComputeSessionDeadline_DurationOnly(t, durationMinutes, endTime) ==
  Min(durationMinutes * 60 * 1000, endTime)

\* The deadline not capped by the window's end
ComputeSessionDeadline_Uncapped(t, durationMinutes, endTime) ==
  t + durationMinutes * 60 * 1000

\* min(now + duration, endTime)
ComputeSessionDeadline(t, durationMinutes, endTime) ==
  Min(t + durationMinutes * 60 * 1000, endTime)

RemainingSeconds(sessionDeadline, t) ==
  Max(0, FloorDiv(sessionDeadline - t, 1000))

\* The session's endTime taken from the window instead of the deadline
InterviewSession_WindowEnd(interview, sessionDeadline, remainingSeconds) ==
  [id |-> interview.id,
   candidateName |-> interview.candidateName,
   role |-> interview.role,
   startTime |-> ToISOString(interview.startTime),
   endTime |-> ToISOString(interview.endTime),
   remainingSeconds |-> remainingSeconds,
   currentQuestionIndex |->
     ParseInt(OrDefault(interview.currentQuestionIndex, Str0))]

\* const session: InterviewSession = {...}
InterviewSession(interview, sessionDeadline, remainingSeconds) ==
  [id |-> interview.id,
   candidateName |-> interview.candidateName,
   role |-> interview.role,
   startTime |-> ToISOString(interview.startTime),
   endTime |-> ToISOString(sessionDeadline),
   remainingSeconds |-> remainingSeconds,
   currentQuestionIndex |->
     ParseInt(OrDefault(interview.currentQuestionIndex, Str0))]

\* The handler, for a request arriving at instant t
LoginOutcome(store, id, password, t) ==
  IF ~LoginSchemaOk(id, password)
  THEN Outcome(Response(400, "", Null, Null, Null), store)
  ELSE
  LET found == GetInterview(store, id) IN
  IF found = Null
  THEN Outcome(Response(404, "", Null, Null, Null), store)
  ELSE
  LET interview == found[1] IN
  IF PasswordMismatch(interview, password)
  THEN Outcome(Response(401, "", Null, Null, Null), store)
  ELSE IF AlreadyUsed(interview)
  THEN Outcome(Response(403, "expired", Null, Null, Null), store)
  ELSE IF AlreadyStarted(interview)
  THEN
    LET sessionDeadline == interview.sessionDeadline[1] IN
    IF SessionDeadlinePassed(t, sessionDeadline)
    THEN Outcome(Response(403, "expired", Null, Null, Null),
                 UpdateInterview(store, id, [isUsed |-> TRUE]))
    ELSE Outcome(Response(200, "", Null,
                   Some(InterviewSession(interview, sessionDeadline,
                          RemainingSeconds(sessionDeadline, t))), Null),
                 store)
  ELSE IF BeforeStart(t, interview.startTime)
  THEN Outcome(Response(403, "not_started",
                 Some(ToISOString(interview.startTime)), Null, Null), store)
  ELSE IF AfterEnd(t, interview.endTime)
  THEN Outcome(Response(403, "expired", Null, Null, Null),
               UpdateInterview(store, id, [isUsed |-> TRUE]))
  ELSE
    LET sessionDeadline ==
          ComputeSessionDeadline(t, DurationMinutes(interview), interview.endTime)
        remainingSeconds == RemainingSeconds(sessionDeadline, t)
    IN  Outcome(Response(200, "", Null,
                  Some(InterviewSession(interview, sessionDeadline, remainingSeconds)),
                  Null),
                UpdateInterview(store, id,
                  [isStarted |-> TRUE,
                   sessionStartedAt |-> Some(t),
                   sessionDeadline |-> Some(sessionDeadline)]))

Login(id, password) ==
  LET out == LoginOutcome(interviews, id, password, now) IN
  /\ req' = Request("login", id, password, Null, Null, Null)
  /\ res' = out.res
  /\ interviews' = out.store
  /\ UNCHANGED <<now, created, clientId,
                 sessions, files, pending, errors, vres, logins>>

----------------------------------------------------------------------------
(* PATCH /api/interviews/:id *)

NumberValue(n) == [kind |-> "number", n |-> n, s |-> <<>>]

StringValue(s) == [kind |-> "string", n |-> 0, s |-> s]

\* isUsed accepted as any boolean
UpdateSchemaOk_AnyBoolean(isUsed, index) == TRUE

\* updateInterviewSchema: isUsed, when present, is the literal true;
\* currentQuestionIndex, when present, is a number or a string
UpdateSchemaOk(isUsed, index) == isUsed = Null \/ isUsed = Some(TRUE)

\* typeof v === "number" ? v : parseInt(v)
IndexOf(value) ==
  IF value.kind = "number" THEN Num(value.n) ELSE ParseInt(value.s)

LastQuestionIndex == 7

\* The bound taken as the number of questions instead of the last index
IndexInRange_UpToLength(index) ==
  ~index.nan /\ index.v >= 0 /\ index.v <= LastQuestionIndex + 1

\* !isNaN(index) && index >= 0 && index <= 7
IndexInRange(index) ==
  ~index.nan /\ index.v >= 0 /\ index.v <= LastQuestionIndex

\* The updates object the handler builds from the validated body
PatchUpdates(isUsed, index) ==
  (IF isUsed = Some(TRUE) THEN [isUsed |-> TRUE] ELSE NoUpdates)
  @@
  (IF index # Null /\ IndexInRange(IndexOf(index[1]))
   THEN [currentQuestionIndex |-> NumberToString(IndexOf(index[1]).v)]
   ELSE NoUpdates)

\* const { password, ...sanitized } = updated
Sanitized(interview) ==
  [f \in DOMAIN interview \ {"password"} |-> interview[f]]

\* A PATCH accepted only for a record that was started and is not used
PatchOutcome_StartedOnly(store, id, isUsed, index) ==
  IF GetInterview(store, id) = Null
  THEN Outcome(Response(404, "", Null, Null, Null), store)
  ELSE IF ~UpdateSchemaOk(isUsed, index)
  THEN Outcome(Response(400, "", Null, Null, Null), store)
  ELSE IF ~store[id].isStarted \/ store[id].isUsed
  THEN Outcome(Response(403, "", Null, Null, Null), store)
  ELSE
    LET after == UpdateInterview(store, id, PatchUpdates(isUsed, index))
    IN  Outcome(Response(200, "", Null, Null, Some(Sanitized(after[id]))), after)

PatchOutcome(store, id, isUsed, index) ==
  IF GetInterview(store, id) = Null
  THEN Outcome(Response(404, "", Null, Null, Null), store)
  ELSE IF ~UpdateSchemaOk(isUsed, index)
  THEN Outcome(Response(400, "", Null, Null, Null), store)
  ELSE
    LET after == UpdateInterview(store, id, PatchUpdates(isUsed, index))
    IN  Outcome(Response(200, "", Null, Null, Some(Sanitized(after[id]))), after)

Patch(id, isUsed, index) ==
  LET out == PatchOutcome(interviews, id, isUsed, index) IN
  /\ req' = Request("patch", id, "", isUsed, index, Null)
  /\ res' = out.res
  /\ interviews' = out.store
  /\ UNCHANGED <<now, created, clientId,
                 sessions, files, pending, errors, vres, logins>>

----------------------------------------------------------------------------
(* POST /api/interviews and DELETE /api/interviews/:id *)

\* generateInterviewId(): an id no record carries yet
GenerateInterviewId(n) ==
  CASE n = 1 -> "INT-NEW-1" [] n = 2 -> "INT-NEW-2" [] n = 3 -> "INT-NEW-3"
    [] OTHER -> "INT-NEW-4"

\* storage.createInterview(insertInterview) with the generated id and password
CreateInterview(id, password, insertInterview) ==
  [id |-> id, password |-> password,
   candidateName |-> insertInterview.candidateName,
   role |-> insertInterview.role,
   startTime |-> insertInterview.startTime,
   endTime |-> insertInterview.endTime,
   durationMinutes |->
     IF insertInterview.durationMinutes = Null THEN Str60
     ELSE insertInterview.durationMinutes[1],
   isUsed |-> FALSE, isStarted |-> FALSE,
   sessionStartedAt |-> Null, sessionDeadline |-> Null,
   currentQuestionIndex |-> Str0]

Create(password, insertInterview) ==
  LET id == GenerateInterviewId(created + 1)
      interview == CreateInterview(id, password, insertInterview)
  IN  /\ created < MaxCreated
      /\ created' = created + 1
      /\ interviews' = [i \in DOMAIN interviews \cup {id} |->
                          IF i = id THEN interview ELSE interviews[i]]
      /\ req' = Request("create", "", "", Null, Null, Some(insertInterview))
      /\ res' = Response(201, "", Null, Null, Some(interview))
      /\ UNCHANGED <<now, clientId,
                     sessions, files, pending, errors, vres, logins>>

Delete(id) ==
  /\ interviews' = DeleteInterview(interviews, id)
  /\ req' = Request("delete", id, "", Null, Null, Null)
  /\ res' = Response(IF id \in DOMAIN interviews THEN 204 ELSE 404,
                     "", Null, Null, Null)
  /\ UNCHANGED <<now, created, clientId,
                 sessions, files, pending, errors, vres, logins>>

----------------------------------------------------------------------------
(* The clock *)

Tick ==
  /\ \E t \in ClockTimes : t > now /\ now' = t
  /\ UNCHANGED <<interviews, created, clientId, req, res,
                 sessions, files, pending, errors, vres, logins>>

----------------------------------------------------------------------------
(* Voice interview engine: texts (unnamed/part_001, voice-service.ts)       *)
(*                                                                         *)
(* A text the voice engine concatenates or substitutes into is a sequence  *)
(* of pieces; the empty text is the empty sequence.  An id is such a text  *)
(* too, because the transcript file name is built by joining two ids.      *)

DEFAULT_QUESTIONS ==
  << "Tell me about yourself.",
     "Why do you want this job?",
     "What are your greatest strengths?",
     "Describe a challenge you overcame.",
     "Where do you see yourself in 5 years?",
     "Why should we hire you?",
     "Tell me about a time you worked in a team.",
     "How do you handle stress and pressure?" >>

AI_RESPONSES ==
  [ greeting       |-> << "Hello ", "{candidateName}",
                          ", let's start your interview. I'm excited to learn more about you. Let's begin with the first question." >>,
    acknowledgment |-> << "Thank you for that response. That's interesting. Let me ask you the next question." >>,
    closing        |-> << "Thank you for completing this interview. Your responses have been recorded. The hiring team will review them and get back to you soon." >>,
    error          |-> << "I didn't quite catch that. Could you please repeat your answer?" >> ]

\* !x of a string
Falsy(text) == text = << >>

Replace_Nothing(text, pattern, replacement) == text

\* String.prototype.replace(pattern, replacement) with a string pattern:
\* the first occurrence only.
Replace(text, pattern, replacement) ==
  LET hits == { i \in 1..Len(text) : text[i] = pattern }
  IN  IF hits = {} THEN text
      ELSE LET i == CHOOSE h \in hits : \A k \in hits : h <= k
           IN  SubSeq(text, 1, i - 1) \o replacement \o SubSeq(text, i + 1, Len(text))

\* `${interviewId}-${sessionId}.json`
TranscriptFilename(interviewId, sessionId) ==
  interviewId \o << "-" >> \o sessionId \o << ".json" >>

\* JSON.stringify / JSON.parse of a transcript, whose values are strings,
\* numbers and arrays of objects of strings.
JSONStringify(value) == [json |-> value]

JSONParse(content) == content.json

\* crypto.randomUUID(): the n-th session id handed out
SessionUUIDs == << "7c9e6679", "f47ac10b", "9b2d5e1a", "3fa85f64" >>

RandomUUID(n) == << SessionUUIDs[n] >>

\* crypto.randomUUID() for a message: a value no other message carries
MessageUUID(session) ==
  [session |-> session.sessionId, n |-> Len(session.messages) + 1]

TranscriptMessage(id, role, text, t) ==
  [id |-> id, role |-> role, text |-> text, timestamp |-> ToISOString(t)]

----------------------------------------------------------------------------
(* Voice interview engine: VoiceInterviewService                            *)

\* startVoiceInterview: the session as it is returned, the greeting pushed
NewVoiceSession(interviewId, candidateName, role, sessionId, t) ==
  LET session == [ interviewId          |-> interviewId,
                   sessionId            |-> sessionId,
                   candidateName        |-> candidateName,
                   role                 |-> role,
                   startedAt            |-> ToISOString(t),
                   messages             |-> << >>,
                   currentQuestionIndex |-> 0,
                   isActive             |-> TRUE ]
      greeting == Replace(AI_RESPONSES.greeting, "{candidateName}", candidateName)
  IN  [session EXCEPT !.messages =
         << TranscriptMessage(MessageUUID(session), "ai", greeting, t) >>]

GetSession(store, sessionId) ==
  IF sessionId \in DOMAIN store THEN Some(store[sessionId]) ELSE Null

ShouldContinue_OneShort(session) ==
  session.currentQuestionIndex < Len(DEFAULT_QUESTIONS) - 2

\* session.currentQuestionIndex < DEFAULT_QUESTIONS.length - 1
ShouldContinue(session) ==
  session.currentQuestionIndex < Len(DEFAULT_QUESTIONS) - 1

\* A turn that stores the candidate's message and no reply
ProcessAudio_NoReply(session, candidateText, t) ==
  LET heard == [session EXCEPT !.messages =
                  Append(@, TranscriptMessage(MessageUUID(session), "candidate",
                                              candidateText, t))]
      shouldContinue == ShouldContinue(session)
      moved == IF shouldContinue
               THEN [heard EXCEPT !.currentQuestionIndex = @ + 1]
               ELSE [heard EXCEPT !.isActive = FALSE]
  IN  [ session |-> moved,
        result  |-> [ aiResponse   |-> IF shouldContinue
                                       THEN AI_RESPONSES.acknowledgment
                                       ELSE AI_RESPONSES.closing,
                      nextQuestion |-> IF shouldContinue
                                       THEN DEFAULT_QUESTIONS[moved.currentQuestionIndex + 1]
                                       ELSE "",
                      sessionEnded |-> ~shouldContinue ] ]

\* A turn that asks the same question again after an answer of one word
ProcessAudio_OneWordRepeats(session, candidateText, t) ==
  LET heard == [session EXCEPT !.messages =
                  Append(@, TranscriptMessage(MessageUUID(session), "candidate",
                                              candidateText, t))]
      oneWord == candidateText = << "No." >>
      shouldContinue == ShouldContinue(session)
      moved == IF oneWord THEN heard
               ELSE IF shouldContinue
               THEN [heard EXCEPT !.currentQuestionIndex = @ + 1]
               ELSE [heard EXCEPT !.isActive = FALSE]
      aiResponse == IF oneWord THEN AI_RESPONSES.error
                    ELSE IF shouldContinue THEN AI_RESPONSES.acknowledgment
                    ELSE AI_RESPONSES.closing
      nextQuestion == IF shouldContinue
                      THEN DEFAULT_QUESTIONS[moved.currentQuestionIndex + 1]
                      ELSE ""
  IN  [ session |-> [moved EXCEPT !.messages =
                       Append(@, TranscriptMessage(MessageUUID(moved), "ai",
                                                   aiResponse, t))],
        result  |-> [ aiResponse   |-> aiResponse,
                      nextQuestion |-> nextQuestion,
                      sessionEnded |-> ~shouldContinue /\ ~oneWord ] ]

\* processAudioAndRespond up to its await: the session after the two pushes
\* and the result the call will return.
ProcessAudio(session, candidateText, t) ==
  LET heard == [session EXCEPT !.messages =
                  Append(@, TranscriptMessage(MessageUUID(session), "candidate",
                                              candidateText, t))]
      shouldContinue == ShouldContinue(session)
      moved == IF shouldContinue
               THEN [heard EXCEPT !.currentQuestionIndex = @ + 1]
               ELSE [heard EXCEPT !.isActive = FALSE]
      aiResponse == IF shouldContinue THEN AI_RESPONSES.acknowledgment
                    ELSE AI_RESPONSES.closing
      nextQuestion == IF shouldContinue
                      THEN DEFAULT_QUESTIONS[moved.currentQuestionIndex + 1]
                      ELSE ""
  IN  [ session |-> [moved EXCEPT !.messages =
                       Append(@, TranscriptMessage(MessageUUID(moved), "ai",
                                                   aiResponse, t))],
        result  |-> [ aiResponse   |-> aiResponse,
                      nextQuestion |-> nextQuestion,
                      sessionEnded |-> ~shouldContinue ] ]

\* The question after the one at the cursor
GetCurrentQuestion_Following(session) ==
  IF session.currentQuestionIndex + 2 \in DOMAIN DEFAULT_QUESTIONS
  THEN DEFAULT_QUESTIONS[session.currentQuestionIndex + 2]
  ELSE ""

\* DEFAULT_QUESTIONS[session.currentQuestionIndex] || ""
GetCurrentQuestion(session) ==
  IF session.currentQuestionIndex + 1 \in DOMAIN DEFAULT_QUESTIONS
  THEN DEFAULT_QUESTIONS[session.currentQuestionIndex + 1]
  ELSE ""

GetSessionMessages(store, sessionId) ==
  IF sessionId \in DOMAIN store THEN store[sessionId].messages ELSE << >>

QuestionsAnswered_Cursor(session) == session.currentQuestionIndex

\* questionsAnswered of the object saveTranscript serialises
QuestionsAnswered(session) == session.currentQuestionIndex + 1

\* The object saveTranscript serialises
Transcript(session, t) ==
  [ interviewId       |-> session.interviewId,
    sessionId         |-> session.sessionId,
    candidateName     |-> session.candidateName,
    role              |-> session.role,
    startedAt         |-> session.startedAt,
    completedAt       |-> ToISOString(t),
    messages          |-> session.messages,
    totalQuestions    |-> Len(DEFAULT_QUESTIONS),
    questionsAnswered |-> QuestionsAnswered(session) ]

\* saveTranscript up to its await: the fs.writeFile it has issued.  awaiting
\* is the send-audio call that resumes when the write settles, or Null for
\* the save endSession does not wait for.
WriteIssued(session, t, awaiting) ==
  [ file     |-> TranscriptFilename(session.interviewId, session.sessionId),
    content  |-> JSONStringify(Transcript(session, t)),
    awaiting |-> awaiting ]

WriteFile_Dropped(disk, write, ok) == disk

\* fs.writeFile settling: the file holds the content, or the write failed
\* and the file is as it was.
WriteFile(disk, write, ok) ==
  IF ok
  THEN [f \in DOMAIN disk \cup {write.file} |->
          IF f = write.file THEN write.content ELSE disk[f]]
  ELSE disk

\* getTranscript: readFile and JSON.parse, null when the read fails
GetTranscriptOf(disk, interviewId, sessionId) ==
  LET file == TranscriptFilename(interviewId, sessionId)
  IN  IF file \in DOMAIN disk THEN Some(JSONParse(disk[file])) ELSE Null

\* endSession clearing what was said after the greeting
EndSessionOf_Truncating(store, sessionId) ==
  IF sessionId \in DOMAIN store
  THEN [store EXCEPT ![sessionId].isActive = FALSE,
                     ![sessionId].messages = SubSeq(@, 1, 1)]
  ELSE store

\* endSession leaving the session active
EndSessionOf_StillActive(store, sessionId) == store

EndSessionOf_Toggle(store, sessionId) ==
  IF sessionId \in DOMAIN store
  THEN [store EXCEPT ![sessionId].isActive = ~@]
  ELSE store

\* endSession: isActive = false when the session is found, nothing otherwise
EndSessionOf(store, sessionId) ==
  IF sessionId \in DOMAIN store
  THEN [store EXCEPT ![sessionId].isActive = FALSE]
  ELSE store

SaveTranscriptSettled_Uncaught(writeOk) ==
  IF writeOk THEN "fulfilled" ELSE "rejected"

\* The try / catch of saveTranscript: a failed write is logged and the
\* promise the caller awaits is fulfilled all the same.
SaveTranscriptSettled(writeOk) ==
  IF writeOk THEN "fulfilled" ELSE "fulfilled"

\* A turn refused once the session is no longer active
ProcessAudioAndRespond_ActiveOnly(store, sessionId, candidateText, t) ==
  IF sessionId \notin DOMAIN store \/ ~store[sessionId].isActive
  THEN [threw |-> TRUE, store |-> store, result |-> Null]
  ELSE LET turn == ProcessAudio(store[sessionId], candidateText, t)
       IN  [ threw  |-> FALSE,
             store  |-> [store EXCEPT ![sessionId] = turn.session],
             result |-> turn.result ]

\* processAudioAndRespond up to its await, on the session map
ProcessAudioAndRespond(store, sessionId, candidateText, t) ==
  IF sessionId \notin DOMAIN store
  THEN [threw |-> TRUE, store |-> store, result |-> Null]
  ELSE LET turn == ProcessAudio(store[sessionId], candidateText, t)
       IN  [ threw  |-> FALSE,
             store  |-> [store EXCEPT ![sessionId] = turn.session],
             result |-> turn.result ]

\* A session not served once the interview record is missing or used
SessionMissing_UnlessRecordOpen(store, sessionId) ==
  \/ GetSession(store, sessionId) = Null
  \/ clientId \notin DOMAIN interviews
  \/ interviews[clientId].isUsed

SessionMissing_Never(store, sessionId) == FALSE

\* if (!session) of the send-audio route
SessionMissing(store, sessionId) == GetSession(store, sessionId) = Null


----------------------------------------------------------------------------
(* Voice interview engine: routes (server/routes.ts)                        *)

MaxSessions == 2

MaxTurns == 9

MaxInFlight == 1

MaxWriteFailures == 1

\* Writes in flight at once where calls overlap
MaxOverlap == 2

VoiceResponse(status, message, body) ==
  [status |-> status, message |-> message, body |-> body]

NoVoiceResponse == VoiceResponse(0, "", Null)

RECURSIVE CandidateMessages(_)
CandidateMessages(messages) ==
  IF messages = << >> THEN 0
  ELSE (IF Head(messages).role = "candidate" THEN 1 ELSE 0)
         + CandidateMessages(Tail(messages))

RECURSIVE TurnsOf(_, _)
TurnsOf(store, ids) ==
  IF ids = {} THEN 0
  ELSE LET id == CHOOSE i \in ids : TRUE
       IN  CandidateMessages(store[id].messages) + TurnsOf(store, ids \ {id})

\* POST /api/interview/start-voice
StartVoice(interviewId, candidateName, role) ==
  /\ IF Falsy(interviewId) \/ Falsy(candidateName) \/ Falsy(role)
     THEN /\ vres' = VoiceResponse(400, "Missing required fields", Null)
          /\ UNCHANGED sessions
     ELSE /\ Cardinality(DOMAIN sessions) < MaxSessions
          /\ LET sessionId == RandomUUID(Cardinality(DOMAIN sessions) + 1)
                 session == NewVoiceSession(interviewId, candidateName, role,
                                            sessionId, now)
             IN  /\ sessions' = [s \in DOMAIN sessions \cup {sessionId} |->
                                   IF s = sessionId THEN session ELSE sessions[s]]
                 /\ vres' = VoiceResponse(200, "",
                              Some([ sessionId       |-> sessionId,
                                     greeting        |-> session.messages[1].text,
                                     questions       |-> DEFAULT_QUESTIONS,
                                     currentQuestion |-> GetCurrentQuestion(session) ]))
  /\ UNCHANGED <<files, pending, errors, now, interviews, created, clientId,
                 req, res, logins>>

\* POST /api/interview/send-audio, up to the await of the transcript write.
\* The call that is accepted appends its messages, issues the write and
\* waits; its response is sent by Settle.  At most limit writes are in
\* flight.
SendAudioWithin(limit, sessionId, candidateText) ==
  LET turn == ProcessAudioAndRespond(sessions, sessionId, candidateText, now)
  IN
  /\ IF Falsy(sessionId) \/ Falsy(candidateText)
     THEN /\ vres' = VoiceResponse(400, "Missing required fields", Null)
          /\ UNCHANGED <<sessions, pending>>
     ELSE IF SessionMissing(sessions, sessionId)
     THEN /\ vres' = VoiceResponse(404, "Session not found", Null)
          /\ UNCHANGED <<sessions, pending>>
     ELSE IF turn.threw
     THEN /\ vres' = VoiceResponse(500, "Failed to process audio", Null)
          /\ UNCHANGED <<sessions, pending>>
     ELSE /\ Len(pending) < limit
          /\ TurnsOf(sessions, DOMAIN sessions) < MaxTurns
          /\ sessions' = turn.store
          /\ pending' = Append(pending,
               WriteIssued(turn.store[sessionId], now,
                           Some([sessionId |-> sessionId, result |-> turn.result])))
          /\ UNCHANGED vres
  /\ UNCHANGED <<files, errors, now, interviews, created, clientId,
                 req, res, logins>>

SendAudio(sessionId, candidateText) ==
  SendAudioWithin(MaxInFlight, sessionId, candidateText)

\* fs.writeFile settles, with or without success.  The send-audio call that
\* awaited it resumes and answers with the result it computed and the
\* session's messages as they are now.
Settle(i, writeOk) ==
  LET write == pending[i]
  IN
  /\ writeOk \/ errors < MaxWriteFailures
  /\ files' = WriteFile(files, write, writeOk)
  /\ errors' = IF writeOk THEN errors ELSE errors + 1
  /\ pending' = SubSeq(pending, 1, i - 1) \o SubSeq(pending, i + 1, Len(pending))
  /\ IF write.awaiting = Null
     THEN UNCHANGED vres
     ELSE LET call == write.awaiting[1]
          IN  vres' =
                   IF SaveTranscriptSettled(writeOk) = "fulfilled"
                   THEN VoiceResponse(200, "",
                          Some([ aiResponse   |-> call.result.aiResponse,
                                 nextQuestion |-> call.result.nextQuestion,
                                 sessionEnded |-> call.result.sessionEnded,
                                 messages     |-> GetSessionMessages(sessions,
                                                    call.sessionId) ]))
                   ELSE VoiceResponse(500, "Failed to process audio", Null)
  /\ UNCHANGED <<sessions, now, interviews, created, clientId,
                 req, res, logins>>

\* POST /api/interview/end-session.  The save is issued and not awaited.
EndSessionWithin(limit, sessionId) ==
  /\ IF Falsy(sessionId)
     THEN /\ vres' = VoiceResponse(400, "Missing sessionId", Null)
          /\ UNCHANGED <<sessions, pending>>
     ELSE /\ sessions' = EndSessionOf(sessions, sessionId)
          /\ IF sessionId \in DOMAIN sessions
             THEN /\ Len(pending) < limit
                  /\ pending' = Append(pending,
                                  WriteIssued(sessions'[sessionId], now, Null))
             ELSE UNCHANGED pending
          /\ vres' = VoiceResponse(200, "Session ended successfully", Null)
  /\ UNCHANGED <<files, errors, now, interviews, created, clientId,
                 req, res, logins>>

EndSession(sessionId) == EndSessionWithin(MaxInFlight, sessionId)

\* POST /api/interview/ai-respond
AiRespond(sessionId) ==
  /\ vres' =
       IF Falsy(sessionId)
       THEN VoiceResponse(400, "Missing sessionId", Null)
       ELSE IF SessionMissing(sessions, sessionId)
       THEN VoiceResponse(404, "Session not found", Null)
       ELSE VoiceResponse(200, "",
              Some([ question       |-> GetCurrentQuestion(sessions[sessionId]),
                     messages       |-> GetSessionMessages(sessions, sessionId),
                     questionIndex  |-> sessions[sessionId].currentQuestionIndex,
                     totalQuestions |-> Len(DEFAULT_QUESTIONS) ]))
  /\ UNCHANGED <<sessions, files, pending, errors, now, interviews, created,
                 clientId, req, res, logins>>

\* GET /api/interview/:interviewId/transcript/:sessionId
GetTranscript(interviewId, sessionId) ==
  LET transcript == GetTranscriptOf(files, interviewId, sessionId)
  IN
  /\ vres' = IF transcript = Null
             THEN VoiceResponse(404, "Transcript not found", Null)
             ELSE VoiceResponse(200, "", transcript)
  /\ UNCHANGED <<sessions, files, pending, errors, now, interviews, created,
                 clientId, req, res, logins>>

----------------------------------------------------------------------------
(* POST /api/auth/login, step by step                                       *)
(*                                                                         *)
(* The handler gives way at its awaits: after storage.getInterview, with   *)
(* the record it read in hand, and after storage.updateInterview.  Here    *)
(* several login requests for clientId are in progress at once, each       *)
(* resuming from its read at some later moment.                            *)

MaxLogins == 2

NoLogin == [pc |-> "idle", password |-> "", found |-> Null, res |-> NoResponse]

\* What the handler passes to storage.updateInterview, if it calls it, having
\* read the record `found` and reading the clock at t
LoginUpdates(found, password, t) ==
  IF found = Null THEN Null
  ELSE
  LET interview == found[1] IN
  IF PasswordMismatch(interview, password) \/ AlreadyUsed(interview)
  THEN Null
  ELSE IF AlreadyStarted(interview)
  THEN IF SessionDeadlinePassed(t, interview.sessionDeadline[1])
       THEN Some([isUsed |-> TRUE])
       ELSE Null
  ELSE IF BeforeStart(t, interview.startTime)
  THEN Null
  ELSE IF AfterEnd(t, interview.endTime)
  THEN Some([isUsed |-> TRUE])
  ELSE Some([isStarted |-> TRUE,
             sessionStartedAt |-> Some(t),
             sessionDeadline |->
               Some(ComputeSessionDeadline(t, DurationMinutes(interview),
                                           interview.endTime))])

\* The handler up to the await of storage.getInterview: the body is
\* validated and the record read
LoginRead(k, password) ==
  /\ logins[k].pc = "idle"
  /\ logins' = [logins EXCEPT ![k] =
       IF ~LoginSchemaOk(clientId, password)
       THEN [pc |-> "done", password |-> password, found |-> Null,
             res |-> Response(400, "", Null, Null, Null)]
       ELSE [pc |-> "read", password |-> password,
             found |-> GetInterview(interviews, clientId),
             res |-> NoResponse]]
  /\ UNCHANGED <<interviews, now, created, clientId, req, res,
                 sessions, files, pending, errors, vres>>

\* The handler from there on: it reads the clock, decides on the record it
\* holds, has storage.updateInterview merge its updates into the record the
\* store holds now, and answers
LoginResume(k) ==
  /\ logins[k].pc = "read"
  /\ LET call == logins[k]
         held == IF call.found = Null THEN << >>
                 ELSE (clientId :> call.found[1])
         out == LoginOutcome(held, clientId, call.password, now)
         updates == LoginUpdates(call.found, call.password, now)
     IN  /\ interviews' = IF updates = Null THEN interviews
                          ELSE UpdateInterview(interviews, clientId, updates[1])
         /\ logins' = [logins EXCEPT ![k] =
                         [call EXCEPT !.pc = "done", !.res = out.res]]
  /\ UNCHANGED <<now, created, clientId, req, res,
                 sessions, files, pending, errors, vres>>

----------------------------------------------------------------------------
(* Inputs *)

SeedIds == DOMAIN SeedInterviews(0)

CreatedIds == {GenerateInterviewId(n) : n \in 1..MaxCreated}

\* Ids a client may present: every record's, one that no record carries, none
RequestIds == SeedIds \cup CreatedIds \cup {"INT-UNKNOWN", ""}

GeneratedPasswords == {"ABCD2345"}

\* Passwords a client may present for an id: the stored one, another, none
PasswordsFor(id) ==
  (IF id \in DOMAIN interviews THEN {interviews[id].password} ELSE {})
    \cup {"WRONGPW1", ""}

IsUsedInputs == {Null, Some(TRUE), Some(FALSE)}

IndexInputs ==
  {Null, Some(NumberValue(3)), Some(NumberValue(8)), Some(NumberValue(9)),
   Some(NumberValue(0 - 1)),
   Some(StringValue(<<"5">>)), Some(StringValue(<<"a", "b", "c">>))}

InsertInterview(startTime, endTime, durationMinutes) ==
  [candidateName |-> "Ada Park", role |-> "Engineer",
   startTime |-> startTime, endTime |-> endTime,
   durationMinutes |-> durationMinutes]

\* PATCH bodies: each field alone, both together, neither
PatchInputs ==
  {<<u, Null>> : u \in IsUsedInputs}
    \cup {<<Null, x>> : x \in IndexInputs}
    \cup {<<u, Some(NumberValue(3))>> : u \in IsUsedInputs}

\* Bodies posted to create an interview: durationMinutes absent, empty, or a
\* decimal integer; the last one has its window entered the wrong way round
CreateInputs ==
  {InsertInterview(10 * Minute, 70 * Minute, Null),
   InsertInterview(70 * Minute, 10 * Minute, Null),
   InsertInterview(10 * Minute, 2 * Hour, Some(<<>>)),
   InsertInterview(10 * Minute, 2 * Hour, Some(<<"1">>)),
   InsertInterview(10 * Minute, 70 * Minute, Some(<<"-", "1">>))}

----------------------------------------------------------------------------
(* Specification *)

\* Inputs of the voice routes
DemoInterviewId == << "INT-DEMO", "-", "ACTIVE" >>

StartInputs ==
  { << DemoInterviewId, << "Ada Lovelace" >>, << "Engineer" >> >>,
    << << >>,          << "Ada Lovelace" >>, << "Engineer" >> >>,
    << DemoInterviewId, << >>,               << "Engineer" >> >>,
    << DemoInterviewId, << "Ada Lovelace" >>, << >> >> }

\* The ids handed out, one that never is, and a missing one
SessionIdInputs ==
  { RandomUUID(n) : n \in 1..MaxSessions } \cup { << "0e37df36" >>, << >> }

CandidateTexts == { << "I led a team of five." >>, << >> }

\* Path parameters of the transcript route: the pair a session was started
\* with, a session id never handed out, and a pair that splits the same
\* characters at another hyphen.
TranscriptKeys ==
  { << DemoInterviewId, RandomUUID(n) >> : n \in 1..MaxSessions }
    \cup { << DemoInterviewId, << "0e37df36" >> >> }
    \cup { << << "INT-DEMO" >>, << "ACTIVE", "-" >> \o RandomUUID(1) >> }

Init ==
  /\ now = 0
  /\ interviews = SeedInterviews(0)
  /\ created = 0
  /\ clientId \in RequestIds
  /\ req = NoRequest
  /\ res = NoResponse
  /\ sessions = << >>
  /\ files = << >>
  /\ pending = << >>
  /\ errors = 0
  /\ vres = NoVoiceResponse
  /\ logins = [k \in 1..MaxLogins |-> NoLogin]

Next ==
  \/ \E password \in PasswordsFor(clientId) : Login(clientId, password)
  \/ \E body \in PatchInputs : Patch(clientId, body[1], body[2])
  \/ /\ clientId \in CreatedIds
     /\ \E password \in GeneratedPasswords, insertInterview \in CreateInputs :
          Create(password, insertInterview)
  \/ Delete(clientId)
  \/ Tick

Spec == Init /\ [][Next]_vars

\* The voice routes, for the candidate of the demo interview
VoiceInit == Init /\ clientId = "INT-DEMO-ACTIVE"

VoiceNext ==
  \/ \E start \in StartInputs : StartVoice(start[1], start[2], start[3])
  \/ \E sessionId \in SessionIdInputs, candidateText \in CandidateTexts :
       SendAudio(sessionId, candidateText)
  \/ \E i \in 1..Len(pending), writeOk \in BOOLEAN : Settle(i, writeOk)
  \/ \E sessionId \in SessionIdInputs : EndSession(sessionId)
  \/ \E sessionId \in SessionIdInputs : AiRespond(sessionId)
  \/ \E key \in TranscriptKeys : GetTranscript(key[1], key[2])

SpecVoice == VoiceInit /\ [][VoiceNext]_vars

\* One voice session whose calls overlap: a call is received while the
\* writes of earlier ones are still in flight
OverlapNext ==
  \/ \E start \in StartInputs :
       sessions = << >> /\ StartVoice(start[1], start[2], start[3])
  \/ \E sessionId \in SessionIdInputs, candidateText \in CandidateTexts :
       SendAudioWithin(MaxOverlap, sessionId, candidateText)
  \/ \E i \in 1..Len(pending), writeOk \in BOOLEAN : Settle(i, writeOk)
  \/ \E sessionId \in SessionIdInputs : EndSessionWithin(MaxOverlap, sessionId)

SpecOverlap == VoiceInit /\ [][OverlapNext]_vars

\* The characters of a lifecycle id as the text the voice routes receive
InterviewIdText(id) ==
  CASE id = "INT-DEMO-ACTIVE"  -> << "INT-DEMO", "-", "ACTIVE" >>
    [] id = "INT-DEMO-FUTURE"  -> << "INT-DEMO", "-", "FUTURE" >>
    [] id = "INT-DEMO-EXPIRED" -> << "INT-DEMO", "-", "EXPIRED" >>
    [] id = "INT-DEMO-DONE"    -> << "INT-DEMO", "-", "DONE" >>
    [] id = ""                 -> << >>
    [] OTHER                   -> << id >>

\* Answers given in all where both engines run
MaxJointTurns == 1

\* PATCH bodies where both engines run
JointPatchInputs == { << Some(TRUE), Null >>, << Null, Some(NumberValue(3)) >> }

\* Both engines serving the candidate of the demo interview: the lifecycle
\* routes and the voice routes called with the same interview id.  The
\* clock moves until the first voice session is started.
JointNext ==
  \/ \E password \in PasswordsFor(clientId) : Login(clientId, password)
  \/ \E body \in JointPatchInputs : Patch(clientId, body[1], body[2])
  \/ Delete(clientId)
  \/ sessions = << >> /\ Tick
  \/ StartVoice(InterviewIdText(clientId), << "Ada Lovelace" >>, << "Engineer" >>)
  \/ \E sessionId \in DOMAIN sessions, candidateText \in CandidateTexts :
       /\ TurnsOf(sessions, DOMAIN sessions) < MaxJointTurns
       /\ SendAudio(sessionId, candidateText)
  \/ \E i \in 1..Len(pending) : Settle(i, TRUE)
  \/ EndSession(RandomUUID(1))
  \/ GetTranscript(InterviewIdText(clientId), RandomUUID(1))

SpecEngines == VoiceInit /\ [][JointNext]_vars

\* Login requests for one id in progress at once
RaceNext ==
  \/ \E k \in 1..MaxLogins, password \in PasswordsFor(clientId) :
       LoginRead(k, password)
  \/ \E k \in 1..MaxLogins : LoginResume(k)
  \/ Tick

SpecRace == Init /\ [][RaceNext]_vars

----------------------------------------------------------------------------
(* Properties of the session lifecycle *)

Exists(id) == id \in DOMAIN interviews

Stored(id) == interviews[id]

\* C1: a login that carries an id and a password answers 404 when no record
\* has the id, and 401 when the record's password differs from the one
\* presented, whatever the record's state and the time; neither changes any
\* record.
C1_IdentityCheckedFirst ==
  [][\A p \in PasswordsFor(clientId) :
       (Login(clientId, p) /\ clientId # "" /\ p # "") =>
         /\ ~Exists(clientId) =>
              res'.status = 404 /\ interviews' = interviews
         /\ (Exists(clientId) /\ Stored(clientId).password # p) =>
              res'.status = 401 /\ res'.type = "" /\ res'.session = Null
                /\ interviews' = interviews]_vars

\* A wrong password was presented for a used record and answered 401
C1_Witness ==
  /\ req.op = "login" /\ Exists(req.id)
  /\ req.password \notin {"", Stored(req.id).password}
  /\ Stored(req.id).isUsed
  /\ res.status = 401

\* C2 as stated: every login attempt on a used record is answered "expired"
\* and changes nothing.
C2_EveryAttemptExpired ==
  [][\A p \in PasswordsFor(clientId) :
       (Login(clientId, p) /\ p # "" /\ Exists(clientId)
          /\ Stored(clientId).isUsed) =>
         /\ res'.status = 403 /\ res'.type = "expired"
         /\ interviews' = interviews]_vars

\* C2 amended: every login attempt with the correct password on a used record
\* is answered "expired", at any time, and changes nothing.
C2_UsedIsTerminal ==
  [][\A p \in PasswordsFor(clientId) :
       (Login(clientId, p) /\ Exists(clientId)
          /\ p = Stored(clientId).password /\ Stored(clientId).isUsed) =>
         /\ res'.status = 403 /\ res'.type = "expired" /\ res'.session = Null
         /\ interviews' = interviews]_vars

\* A used record that was never started refused a correct login inside its
\* window
C2_Witness ==
  /\ req.op = "login" /\ Exists(req.id)
  /\ req.password = Stored(req.id).password
  /\ Stored(req.id).isUsed /\ ~Stored(req.id).isStarted
  /\ Stored(req.id).startTime <= now /\ now <= Stored(req.id).endTime
  /\ res.status = 403 /\ res.type = "expired"

\* C3: no step takes isUsed of a record from true to false, and a PATCH whose
\* body carries isUsed: false is rejected and leaves the store as it was.
C3_IsUsedMonotonic ==
  [][/\ \A i \in DOMAIN interviews \cap DOMAIN interviews' :
          interviews[i].isUsed => interviews'[i].isUsed
     /\ \A body \in PatchInputs :
          (Patch(clientId, body[1], body[2]) /\ Exists(clientId)
             /\ body[1] = Some(FALSE)) =>
            res'.status = 400 /\ interviews' = interviews]_vars

\* isUsed: false was sent for a used record and refused
C3_Witness ==
  /\ req.op = "patch" /\ req.isUsed = Some(FALSE) /\ Exists(req.id)
  /\ Stored(req.id).isUsed
  /\ res.status = 400

\* The minutes a stored durationMinutes text stands for ("" reads as the
\* column default)
MinutesDenoted(text) ==
  CASE text = <<"6", "0">> -> 60
    [] text = <<>> -> 60
    [] text = <<"1">> -> 1
    [] text = <<"-", "1">> -> 0 - 1

\* min(t + minutes, endTime), in milliseconds
DeadlineFor(interview, t) ==
  LET byDuration == t + MinutesDenoted(interview.durationMinutes) * 60000
  IN  IF byDuration < interview.endTime THEN byDuration ELSE interview.endTime

\* Whole seconds from t to deadline, none when the deadline is behind
WholeSecondsLeft(deadline, t) ==
  IF deadline <= t THEN 0
  ELSE CHOOSE n \in 0..((deadline - t) \div 1000) :
         n * 1000 <= deadline - t /\ deadline - t < (n + 1) * 1000

CorrectLogin(p) ==
  /\ Login(clientId, p)
  /\ Exists(clientId)
  /\ p = Stored(clientId).password

C5_DeadlineFixedOnceSet ==
  [][\A i \in DOMAIN interviews \cap DOMAIN interviews' :
       /\ interviews[i].sessionDeadline # Null =>
            interviews'[i].sessionDeadline = interviews[i].sessionDeadline
       /\ interviews[i].sessionStartedAt # Null =>
            interviews'[i].sessionStartedAt = interviews[i].sessionStartedAt
       /\ interviews[i].isStarted => interviews'[i].isStarted]_vars

\* A record started at the window's opening was logged into again later,
\* after its question index had been moved, and still carries the deadline
\* of the first login
C5_Witness ==
  /\ req.op = "login" /\ Exists(req.id) /\ res.status = 200
  /\ Stored(req.id).sessionStartedAt = <<Stored(req.id).startTime>>
  /\ Stored(req.id).currentQuestionIndex # <<"0">>
  /\ res.session[1].remainingSeconds * 1000
       < Stored(req.id).sessionDeadline[1] - Stored(req.id).sessionStartedAt[1]
  /\ res.session[1].remainingSeconds > 0

\* C6: a login with the correct password on a started, unused record at
\* now <= sessionDeadline returns the stored deadline as endTime and the whole
\* seconds left to it, changes no record, and after an earlier successful
\* login returns the same endTime and no more remainingSeconds than it.
C6_ReloginIdempotent ==
  [][\A p \in PasswordsFor(clientId) :
       (CorrectLogin(p)
          /\ ~Stored(clientId).isUsed /\ Stored(clientId).isStarted
          /\ Stored(clientId).sessionDeadline # Null
          /\ now <= Stored(clientId).sessionDeadline[1]) =>
         LET deadline == Stored(clientId).sessionDeadline[1] IN
         /\ res'.status = 200 /\ res'.session # Null
         /\ res'.session[1].endTime = [iso |-> deadline]
         /\ res'.session[1].remainingSeconds = WholeSecondsLeft(deadline, now)
         /\ interviews' = interviews
         /\ (req.op = "login" /\ res.status = 200) =>
              /\ res'.session[1].endTime = res.session[1].endTime
              /\ res'.session[1].remainingSeconds
                   <= res.session[1].remainingSeconds]_vars

\* A second login half a second after the first: same endTime, one second
\* less
C6_Witness ==
  /\ req.op = "login" /\ Exists(req.id) /\ res.status = 200
  /\ ~Stored(req.id).isUsed
  /\ now = 10 * Minute + 500
  /\ Stored(req.id).sessionStartedAt = <<10 * Minute>>
  /\ res.session[1].endTime = [iso |-> Stored(req.id).sessionDeadline[1]]
  /\ res.session[1].remainingSeconds
       = (Stored(req.id).sessionDeadline[1] - 10 * Minute) \div 1000 - 1

\* C7: a login with the correct password on a started, unused record at
\* now > sessionDeadline is answered "expired" and sets isUsed, nothing else.
C7_SessionExpiryMarksUsed ==
  [][\A p \in PasswordsFor(clientId) :
       (CorrectLogin(p)
          /\ ~Stored(clientId).isUsed /\ Stored(clientId).isStarted
          /\ Stored(clientId).sessionDeadline # Null
          /\ now > Stored(clientId).sessionDeadline[1]) =>
         /\ res'.status = 403 /\ res'.type = "expired" /\ res'.session = Null
         /\ interviews' = [interviews EXCEPT ![clientId].isUsed = TRUE]]_vars

\* One millisecond past the deadline, still inside the window: refused and
\* used
C7_Witness ==
  /\ req.op = "login" /\ Exists(req.id)
  /\ req.password = Stored(req.id).password
  /\ res.status = 403 /\ res.type = "expired"
  /\ Stored(req.id).isStarted /\ Stored(req.id).isUsed
  /\ Stored(req.id).sessionDeadline # Null
  /\ now = Stored(req.id).sessionDeadline[1] + 1
  /\ now < Stored(req.id).endTime

C9_BeforeStartNotStarted ==
  [][\A p \in PasswordsFor(clientId) :
       (CorrectLogin(p)
          /\ ~Stored(clientId).isUsed /\ ~Stored(clientId).isStarted
          /\ Stored(clientId).sessionDeadline = Null
          /\ now < Stored(clientId).startTime) =>
         /\ res'.status = 403 /\ res'.type = "not_started"
         /\ res'.scheduledTime = <<[iso |-> Stored(clientId).startTime]>>
         /\ res'.session = Null
         /\ interviews' = interviews]_vars

\* Refused ten minutes early, the record untouched
C9_Witness ==
  /\ req.op = "login" /\ Exists(req.id)
  /\ req.password = Stored(req.id).password
  /\ res.status = 403 /\ res.type = "not_started"
  /\ res.scheduledTime = <<[iso |-> 10 * Minute]>>
  /\ now = 0
  /\ ~Stored(req.id).isUsed /\ ~Stored(req.id).isStarted

\* The integer a currentQuestionIndex value of a PATCH body stands for
StandsForInteger(value) == value.kind = "number" \/ value.s = <<"5">>

IntegerStoodFor(value) == IF value.kind = "number" THEN value.n ELSE 5

QuestionIndexText(n) == <<(<<"0", "1", "2", "3", "4", "5", "6", "7">>)[n + 1]>>

\* C10: a PATCH whose currentQuestionIndex is in [0,7] stores exactly that
\* value, whatever was stored before; one outside [0,7] leaves the stored
\* value; both are answered 200.
C10_QuestionIndexUpdate ==
  [][\A body \in PatchInputs :
       (Patch(clientId, body[1], body[2]) /\ Exists(clientId)
          /\ body[1] # Some(FALSE)
          /\ body[2] # Null /\ StandsForInteger(body[2][1])) =>
         LET n == IntegerStoodFor(body[2][1]) IN
         /\ res'.status = 200
         /\ interviews'[clientId].currentQuestionIndex =
              IF 0 <= n /\ n <= 7 THEN QuestionIndexText(n)
              ELSE interviews[clientId].currentQuestionIndex
         /\ res'.interview[1].currentQuestionIndex =
              interviews'[clientId].currentQuestionIndex]_vars

\* The seeded record that carried "8" now carries 3, a smaller value
C10_Witness ==
  /\ req.op = "patch" /\ req.id = "INT-DEMO-DONE" /\ Exists(req.id)
  /\ req.index = Some(NumberValue(3))
  /\ res.status = 200
  /\ Stored(req.id).currentQuestionIndex = <<"3">>

\* C11: in every reachable state of the store, every record's
\* currentQuestionIndex is the text of an integer between 0 and 7.
C11_QuestionIndexInRange ==
  \A id \in DOMAIN interviews :
    LET index == ParseInt(interviews[id].currentQuestionIndex)
    IN  ~index.nan /\ 0 <= index.v /\ index.v <= LastQuestionIndex

----------------------------------------------------------------------------
(* Properties of the voice interview engine *)

Answers(messages) ==
  Cardinality({ i \in DOMAIN messages : messages[i].role = "candidate" })

\* The send-audio calls of session s whose transcript write has not settled
TurnsInFlight(s) ==
  { j \in 1..Len(pending) :
      pending[j].awaiting # Null /\ pending[j].awaiting[1].sessionId = s }

\* The send-audio call waiting on write i was not overlapped by another call
\* of its session: none is in flight and none was made after it
Sequential(i) ==
  LET s == pending[i].awaiting[1].sessionId
  IN  /\ TurnsInFlight(s) = {i}
      /\ pending[i].content.json.messages = sessions[s].messages

IsTurnResponse(response) ==
  /\ response.status = 200
  /\ response.body # Null
  /\ "sessionEnded" \in DOMAIN response.body[1]

\* C12: the n-th send-audio call of a session (n <= 8, non-empty text) leaves
\* 1 + 2n messages, the last two being the candidate's text and the reply,
\* and the cursor at min(n, 7); when it is answered, no other call of the
\* session having overlapped it, the
\* answer is the acknowledgment with question n + 1 and sessionEnded false
\* for n < 8, and the closing text with no question, sessionEnded true and
\* the session inactive for n = 8.
C12_EightTurns ==
  [][/\ \A s \in DOMAIN sessions, text \in CandidateTexts \ {<< >>} :
          SendAudio(s, text) =>
            LET n == Answers(sessions[s].messages) + 1
                after == sessions'[s]
            IN  n <= 8 =>
                  /\ Len(after.messages) = 1 + 2 * n
                  /\ after.messages[2 * n].role = "candidate"
                  /\ after.messages[2 * n].text = text
                  /\ after.messages[2 * n + 1].role = "ai"
                  /\ after.messages[2 * n + 1].text =
                       IF n < 8 THEN AI_RESPONSES.acknowledgment
                       ELSE AI_RESPONSES.closing
                  /\ after.currentQuestionIndex = (IF n < 7 THEN n ELSE 7)
                  /\ (n = 8 => ~after.isActive)
                  /\ (n < 8 => after.isActive = sessions[s].isActive)
     /\ \A i \in 1..Len(pending), writeOk \in BOOLEAN :
          (/\ Settle(i, writeOk)
           /\ pending[i].awaiting # Null
           /\ Sequential(i)) =>
            LET s == pending[i].awaiting[1].sessionId
                n == Answers(sessions[s].messages)
            IN  n <= 8 =>
                  /\ IsTurnResponse(vres')
                  /\ vres'.body[1].sessionEnded = (n = 8)
                  /\ vres'.body[1].aiResponse =
                       IF n < 8 THEN AI_RESPONSES.acknowledgment
                       ELSE AI_RESPONSES.closing
                  /\ vres'.body[1].nextQuestion =
                       IF n < 8 THEN DEFAULT_QUESTIONS[n + 1] ELSE ""
                  /\ Len(vres'.body[1].messages) = 1 + 2 * n]_vars

\* The eighth call of a session has been answered
C12_Witness ==
  \E s \in DOMAIN sessions :
    /\ Answers(sessions[s].messages) = 8
    /\ Len(sessions[s].messages) = 17
    /\ sessions[s].currentQuestionIndex = 7
    /\ ~sessions[s].isActive
    /\ pending = << >>
    /\ IsTurnResponse(vres)
    /\ vres.body[1].sessionEnded
    /\ vres.body[1].nextQuestion = ""
    /\ vres.body[1].messages = sessions[s].messages

\* C13: a send-audio call naming a session id that is not in the session map
\* is answered "Session not found"; no session is created or modified and no
\* transcript write is issued or stored.
C13_UnknownSession ==
  [][\A s \in SessionIdInputs \ {<< >>}, text \in CandidateTexts \ {<< >>} :
       (SendAudio(s, text) /\ s \notin DOMAIN sessions) =>
         /\ vres' = VoiceResponse(404, "Session not found", Null)
         /\ sessions' = sessions
         /\ pending' = pending
         /\ files' = files]_vars

\* An unknown id was refused while a session with an answered turn exists
C13_Witness ==
  /\ vres = VoiceResponse(404, "Session not found", Null)
  /\ \E s \in DOMAIN sessions : Answers(sessions[s].messages) > 0

Contains(text, part) ==
  \E i \in 1..(Len(text) - Len(part) + 1) :
    SubSeq(text, i, i + Len(part) - 1) = part

SavedUnder(interviewId, sessionId) ==
  \E f \in DOMAIN files :
    /\ files[f].json.interviewId = interviewId
    /\ files[f].json.sessionId = sessionId

\* C15: the transcript route answers "Transcript not found" for every pair
\* (interviewId, sessionId) under which no save has completed.
C15_NotFoundUnlessSaved ==
  [][\A key \in TranscriptKeys :
       (GetTranscript(key[1], key[2]) /\ ~SavedUnder(key[1], key[2])) =>
         vres' = VoiceResponse(404, "Transcript not found", Null)]_vars

\* C16: an end-session call naming a session id is always answered 200; on a
\* known session it sets isActive false and changes nothing else in the
\* session map, so a call on a session already ended leaves the map as it
\* is; on an unknown id it changes nothing and issues no write.  The write
\* it issued settling, with or without success, changes neither the session
\* map nor the answer.
C16_EndSessionIdempotent ==
  [][/\ \A s \in SessionIdInputs \ {<< >>} :
          EndSession(s) =>
            /\ vres' = VoiceResponse(200, "Session ended successfully", Null)
            /\ files' = files
            /\ DOMAIN sessions' = DOMAIN sessions
            /\ \A id \in DOMAIN sessions :
                 /\ sessions'[id].messages = sessions[id].messages
                 /\ sessions'[id].currentQuestionIndex =
                      sessions[id].currentQuestionIndex
                 /\ sessions'[id].isActive =
                      (IF id = s THEN FALSE ELSE sessions[id].isActive)
                 /\ (id # s => sessions'[id] = sessions[id])
            /\ (s \in DOMAIN sessions /\ ~sessions[s].isActive =>
                  sessions' = sessions)
            /\ (s \notin DOMAIN sessions => pending' = pending)
     /\ \A i \in 1..Len(pending), writeOk \in BOOLEAN :
          (Settle(i, writeOk) /\ pending[i].awaiting = Null) =>
            sessions' = sessions /\ vres' = vres]_vars

\* A session that never answered a turn was ended, its save completed, and
\* it was ended a second time
C16_Witness ==
  /\ vres = VoiceResponse(200, "Session ended successfully", Null)
  /\ \E s \in DOMAIN sessions :
       /\ Len(sessions[s].messages) = 1
       /\ ~sessions[s].isActive
       /\ SavedUnder(sessions[s].interviewId, s)
       /\ \E j \in 1..Len(pending) :
            pending[j].awaiting = Null /\ pending[j].content.json.sessionId = s

\* C17: when the transcript write of a send-audio call fails, the call is
\* answered 200 with the result it computed; the session keeps the
\* candidate's message, the reply and the cursor of that turn, and the
\* stored transcripts are as they were before the write.
C17_FailedWriteDoesNotAbort ==
  [][\A i \in 1..Len(pending) :
       (Settle(i, FALSE) /\ pending[i].awaiting # Null) =>
         LET call == pending[i].awaiting[1]
             saved == pending[i].content.json
             session == sessions'[call.sessionId]
             n == Len(saved.messages)
         IN  /\ IsTurnResponse(vres')
             /\ vres'.body[1].aiResponse = call.result.aiResponse
             /\ vres'.body[1].nextQuestion = call.result.nextQuestion
             /\ vres'.body[1].sessionEnded = call.result.sessionEnded
             /\ sessions' = sessions
             /\ SubSeq(session.messages, 1, n) = saved.messages
             /\ session.messages[n - 1].role = "candidate"
             /\ session.messages[n].role = "ai"
             /\ session.messages[n].text = call.result.aiResponse
             /\ session.currentQuestionIndex >= saved.questionsAnswered - 1
             /\ vres'.body[1].messages = session.messages
             /\ files' = files]_vars

\* The write of a session's first turn failed and the turn was answered:
\* nothing is stored for the session, which holds the three messages
C17_Witness ==
  /\ errors = 1
  /\ pending = << >>
  /\ IsTurnResponse(vres)
  /\ \E s \in DOMAIN sessions :
       /\ sessions[s].isActive
       /\ Answers(sessions[s].messages) = 1
       /\ sessions[s].currentQuestionIndex = 1
       /\ vres.body[1].messages = sessions[s].messages
       /\ ~SavedUnder(sessions[s].interviewId, s)

\* C18: a send-audio call is answered without waiting for its transcript
\* write: no call is ever suspended on a write that has not settled.
C18_ResultNotHeldByWrite ==
  \A j \in 1..Len(pending) : pending[j].awaiting = Null

\* C19: when a send-audio call is answered after its write succeeded, no
\* other call of the session having overlapped it, the transcript route's read
\* of the session's pair gives a record whose messages are the session's
\* messages, that turn's two included.
C19_PersistedEveryTurn ==
  [][\A i \in 1..Len(pending) :
       (/\ Settle(i, TRUE)
        /\ pending[i].awaiting # Null
        /\ Sequential(i)) =>
         LET s == pending[i].awaiting[1].sessionId
             session == sessions'[s]
             loaded == GetTranscriptOf(files', session.interviewId, s)
         IN  /\ loaded # Null
             /\ loaded[1].messages = session.messages
             /\ loaded[1].interviewId = session.interviewId
             /\ loaded[1].sessionId = s
             /\ Len(loaded[1].messages) = 1 + 2 * Answers(session.messages)
             /\ IsTurnResponse(vres')
             /\ vres'.body[1].messages = loaded[1].messages]_vars

\* The transcript of an interview three turns in, none of them the last, is
\* stored with all seven messages
C19_Witness ==
  /\ IsTurnResponse(vres)
  /\ ~vres.body[1].sessionEnded
  /\ \E s \in DOMAIN sessions :
       LET loaded == GetTranscriptOf(files, sessions[s].interviewId, s)
       IN  /\ Answers(sessions[s].messages) = 3
           /\ sessions[s].isActive
           /\ loaded # Null
           /\ Len(loaded[1].messages) = 7
           /\ loaded[1].messages = sessions[s].messages
           /\ vres.body[1].messages = sessions[s].messages

\* C20: every write issued carries totalQuestions 8 and questionsAnswered =
\* the session's cursor + 1 at that moment, between 1 and 8; a write that
\* succeeds replaces the record of its session's pair and leaves the record
\* of every other session's pair as it was; distinct sessions have distinct
\* files.
C20_SavedRecord ==
  [][/\ Len(pending') > Len(pending) =>
          LET saved == pending'[Len(pending')].content.json
              session == sessions'[saved.sessionId]
          IN  /\ saved.totalQuestions = 8
              /\ saved.questionsAnswered = session.currentQuestionIndex + 1
              /\ 1 <= saved.questionsAnswered
              /\ saved.questionsAnswered <= saved.totalQuestions
              /\ saved.interviewId = session.interviewId
              /\ saved.messages = session.messages
     /\ \A i \in 1..Len(pending) :
          Settle(i, TRUE) =>
            LET saved == pending[i].content.json
            IN  /\ GetTranscriptOf(files', saved.interviewId, saved.sessionId)
                     = Some(saved)
                /\ \A s \in DOMAIN sessions \ {saved.sessionId} :
                     GetTranscriptOf(files', sessions[s].interviewId, s)
                       = GetTranscriptOf(files, sessions[s].interviewId, s)
                /\ Cardinality(DOMAIN files') <= Cardinality(DOMAIN sessions)]_vars

\* Two sessions have a stored record; one of them was written over by a
\* later turn and now says two questions were reached
C20_Witness ==
  \E a, b \in DOMAIN sessions :
    LET ra == GetTranscriptOf(files, sessions[a].interviewId, a)
        rb == GetTranscriptOf(files, sessions[b].interviewId, b)
    IN  /\ a # b
        /\ ra # Null /\ rb # Null
        /\ ra[1].questionsAnswered = 3
        /\ Len(ra[1].messages) = 5
        /\ rb[1].questionsAnswered = 2
        /\ ra[1].totalQuestions = 8

----------------------------------------------------------------------------
(* Properties of the session lifecycle, continued *)

\* C21: a login returns a session only when the id has a record, the
\* password is the record's, the record is not used and startTime <= now <=
\* endTime, and, when the record was already started, it has a deadline and
\* now <= that deadline.
C21_SessionOnlyInWindow ==
  [][\A p \in PasswordsFor(clientId) :
       (Login(clientId, p) /\ res'.session # Null) =>
         /\ Exists(clientId)
         /\ p = Stored(clientId).password
         /\ ~Stored(clientId).isUsed
         /\ Stored(clientId).startTime <= now
         /\ now <= Stored(clientId).endTime
         /\ (Stored(clientId).isStarted =>
               /\ Stored(clientId).sessionDeadline # Null
               /\ now <= Stored(clientId).sessionDeadline[1])
         /\ res'.status = 200]_vars

\* A session was returned by a login made after the one that started the
\* record, inside the window and before the deadline
C21_Witness ==
  /\ req.op = "login" /\ Exists(req.id)
  /\ res.status = 200 /\ res.session # Null
  /\ Stored(req.id).isStarted /\ ~Stored(req.id).isUsed
  /\ Stored(req.id).sessionStartedAt[1] < now
  /\ now < Stored(req.id).sessionDeadline[1]
  /\ res.session[1].remainingSeconds =
       WholeSecondsLeft(Stored(req.id).sessionDeadline[1], now)

\* C22: with login requests for one record in progress at once, a stored
\* sessionDeadline is never replaced by another, and all sessions returned
\* for the record carry the same endTime.
C22_SingleDeadlineUnderRace ==
  [][/\ (/\ Exists(clientId)
         /\ Stored(clientId).sessionDeadline # Null) =>
          interviews'[clientId].sessionDeadline =
            Stored(clientId).sessionDeadline
     /\ \A j, k \in 1..MaxLogins :
          (logins'[j].res.session # Null /\ logins'[k].res.session # Null) =>
            logins'[j].res.session[1].endTime =
              logins'[k].res.session[1].endTime]_vars

\* The states of a record at time t that describe it
RecordStates(interview, t) ==
  {state \in {"not started", "started-active", "started-expired", "used"} :
     \/ /\ state = "not started"
        /\ ~interview.isStarted /\ ~interview.isUsed
     \/ /\ state = "started-active"
        /\ interview.isStarted /\ ~interview.isUsed
        /\ interview.sessionDeadline # Null
        /\ t <= interview.sessionDeadline[1]
     \/ /\ state = "started-expired"
        /\ interview.isStarted /\ ~interview.isUsed
        /\ interview.sessionDeadline # Null
        /\ t > interview.sessionDeadline[1]
     \/ /\ state = "used"
        /\ interview.isUsed}

\* C23: every record is at every instant in exactly one of the states not
\* started, started-active, started-expired and used, and no record has
\* isStarted true without a sessionDeadline.
C23_ExactlyOneState ==
  \A i \in DOMAIN interviews :
    /\ Cardinality(RecordStates(interviews[i], now)) = 1
    /\ interviews[i].isStarted => interviews[i].sessionDeadline # Null

\* A record started by a login whose deadline has since passed, not yet
\* marked used
C23_Witness ==
  /\ Exists(clientId)
  /\ ~(clientId \in SeedIds /\ SeedInterviews(0)[clientId].isStarted)
  /\ RecordStates(Stored(clientId), now) = {"started-expired"}

----------------------------------------------------------------------------
(* Properties of the voice interview engine, continued *)

IsPrefix(old, new) ==
  /\ Len(old) <= Len(new)
  /\ SubSeq(new, 1, Len(old)) = old

IsQuestionResponse(response) ==
  /\ response.status = 200
  /\ response.body # Null
  /\ "question" \in DOMAIN response.body[1]

\* C24: in every step (a turn, endSession, reading the messages or the
\* current question, a save settling) each session keeps the messages it
\* had as a prefix of its messages, with the same id, role, text and
\* timestamp in the same order.
C24_MessagesAppendOnly ==
  [][\A s \in DOMAIN sessions :
       /\ s \in DOMAIN sessions'
       /\ IsPrefix(sessions[s].messages, sessions'[s].messages)]_vars

\* After two turns, an endSession and a save, the messages and the current
\* question were read and the five messages are those of the two turns
C24_Witness ==
  /\ IsQuestionResponse(vres)
  /\ \E s \in DOMAIN sessions :
       /\ ~sessions[s].isActive
       /\ sessions[s].currentQuestionIndex = 2
       /\ Len(sessions[s].messages) = 5
       /\ vres.body[1].messages = sessions[s].messages
       /\ SavedUnder(sessions[s].interviewId, s)

\* The reply processAudioAndRespond stores for the k-th answer of a session
ReplyTo(k) ==
  IF k < Len(DEFAULT_QUESTIONS) THEN AI_RESPONSES.acknowledgment
  ELSE AI_RESPONSES.closing

\* C25: with send-audio calls of one session overlapping at their awaits,
\* the session's messages are always the greeting followed by pairs of a
\* candidate message and the reply produced for it, so their number is odd.
C25_TurnsAppendedWhole ==
  \A s \in DOMAIN sessions :
    LET messages == sessions[s].messages IN
    /\ Len(messages) % 2 = 1
    /\ messages[1].role = "ai"
    /\ messages[1].text =
         Replace(AI_RESPONSES.greeting, "{candidateName}", sessions[s].candidateName)
    /\ \A k \in 1..((Len(messages) - 1) \div 2) :
         /\ messages[2 * k].role = "candidate"
         /\ messages[2 * k + 1].role = "ai"
         /\ messages[2 * k + 1].text = ReplyTo(k)
         /\ messages[2 * k + 1].timestamp = messages[2 * k].timestamp

\* Two send-audio calls of one session are waiting for their writes at once
C25_Witness ==
  \E s \in DOMAIN sessions :
    /\ Cardinality(TurnsInFlight(s)) = 2
    /\ Len(sessions[s].messages) = 5
    /\ pending[1].content # pending[2].content

\* C26: a session is inactive after a step exactly when it was inactive
\* before, or the step is a turn processed with the cursor at the last
\* question, or the step is an endSession on it; so it is inactive exactly
\* when one of the two has happened, and never becomes active again.
C26_InactiveExactlyWhen ==
  [][\A s \in DOMAIN sessions' :
       ~sessions'[s].isActive <=>
         \/ s \in DOMAIN sessions /\ ~sessions[s].isActive
         \/ /\ s \in DOMAIN sessions
            /\ sessions[s].currentQuestionIndex = Len(DEFAULT_QUESTIONS) - 1
            /\ Len(sessions'[s].messages) = Len(sessions[s].messages) + 2
         \/ EndSession(s)]_vars

\* One session was ended by endSession before its last question, its saved
\* transcript one turn behind; another is under way and still active
C26_Witness ==
  \E s, o \in DOMAIN sessions :
    /\ ~sessions[s].isActive
    /\ sessions[s].currentQuestionIndex \in 1..6
    /\ \E f \in DOMAIN files :
         /\ files[f].json.sessionId = s
         /\ files[f].json.questionsAnswered = sessions[s].currentQuestionIndex
    /\ sessions[o].isActive
    /\ sessions[o].currentQuestionIndex > 0

\* Candidate texts the send-audio route accepts
SpokenTexts ==
  { << "I led a team of five." >>, << "No." >>,
    << "I led", " a team", " of five." >> }

\* What a turn leaves besides the candidate's own message
TurnEffect(session, candidateText, t) ==
  LET turn == ProcessAudio(session, candidateText, t) IN
  [ result   |-> turn.result,
    cursor   |-> turn.session.currentQuestionIndex,
    isActive |-> turn.session.isActive,
    appended |-> Len(turn.session.messages) - Len(session.messages),
    reply    |-> turn.session.messages[Len(turn.session.messages)].text ]

\* C27: for two sessions with the same cursor and isActive, a turn with any
\* two non-empty texts gives the same aiResponse, nextQuestion and
\* sessionEnded and leaves the same cursor and isActive; the text is found
\* only in the candidate message that is stored.
C27_ContentIndependent ==
  [][\A s \in DOMAIN sessions, spoken \in CandidateTexts :
       (SendAudio(s, spoken) /\ sessions' # sessions) =>
         LET call == pending'[Len(pending')]
             was == sessions[s].messages
             is == sessions'[s].messages
             effect == [ result   |-> call.awaiting[1].result,
                         cursor   |-> sessions'[s].currentQuestionIndex,
                         isActive |-> sessions'[s].isActive,
                         appended |-> Len(is) - Len(was),
                         reply    |-> is[Len(is)].text ]
         IN  /\ is[Len(is) - 1].text = spoken
             /\ \A o \in DOMAIN sessions :
                  (/\ sessions[o].currentQuestionIndex =
                        sessions[s].currentQuestionIndex
                   /\ sessions[o].isActive = sessions[s].isActive) =>
                    \A other \in SpokenTexts :
                      /\ ~Falsy(other)
                      /\ TurnEffect(sessions[o], other, now) = effect]_vars

\* Two sessions stand at the same question after answering, one with more
\* said in it than the other
C27_Witness ==
  \E s, o \in DOMAIN sessions :
    /\ s # o
    /\ sessions[s].currentQuestionIndex = sessions[o].currentQuestionIndex
    /\ sessions[s].isActive = sessions[o].isActive
    /\ sessions[s].currentQuestionIndex > 0
    /\ IsTurnResponse(vres)

\* C28: every session's cursor is in 0..7; in a step it stays or, in a turn
\* taken below 7, grows by one; the ai-respond route returns for a known
\* session the question of the list at its cursor, never the empty string,
\* and answers "Session not found" only for an id that has no session.
C28_CursorInRange ==
  [][/\ \A s \in DOMAIN sessions' :
          sessions'[s].currentQuestionIndex \in 0..(Len(DEFAULT_QUESTIONS) - 1)
     /\ \A s \in DOMAIN sessions :
          LET cursor == sessions[s].currentQuestionIndex
              turned == Len(sessions'[s].messages) = Len(sessions[s].messages) + 2
          IN  /\ sessions'[s].currentQuestionIndex \in {cursor, cursor + 1}
              /\ sessions'[s].currentQuestionIndex = cursor + 1 <=>
                    (turned /\ cursor < Len(DEFAULT_QUESTIONS) - 1)
     /\ \A id \in SessionIdInputs :
          AiRespond(id) =>
            /\ id \in DOMAIN sessions =>
                 /\ vres'.status = 200
                 /\ vres'.body[1].question # ""
                 /\ vres'.body[1].question =
                      DEFAULT_QUESTIONS[sessions[id].currentQuestionIndex + 1]
            /\ vres'.status = 404 => id \notin DOMAIN sessions
            /\ (id \notin DOMAIN sessions /\ ~Falsy(id)) => vres'.status = 404]_vars

\* The current question was read from a session standing at the last
\* question, all eight answers given
C28_Witness ==
  /\ IsQuestionResponse(vres)
  /\ vres.body[1].questionIndex = Len(DEFAULT_QUESTIONS) - 1
  /\ vres.body[1].question = DEFAULT_QUESTIONS[Len(DEFAULT_QUESTIONS)]
  /\ Len(vres.body[1].messages) = 1 + 2 * Len(DEFAULT_QUESTIONS)

\* The writes of session s that have not settled
WritesInFlight(s) ==
  { j \in 1..Len(pending) : pending[j].content.json.sessionId = s }

\* C29: when no write of a session is in flight any more and none has
\* failed, the stored transcript holds all the messages of the session and
\* its cursor, whatever the order in which overlapping writes completed.
C29_StoredIsLatest ==
  \A s \in DOMAIN sessions :
    (/\ WritesInFlight(s) = {}
     /\ errors = 0
     /\ SavedUnder(sessions[s].interviewId, s)) =>
      LET stored == GetTranscriptOf(files, sessions[s].interviewId, s)[1]
      IN  /\ stored.messages = sessions[s].messages
          /\ stored.questionsAnswered = sessions[s].currentQuestionIndex + 1

----------------------------------------------------------------------------
(* Properties of the session lifecycle: the stored record *)

\* C30: in every record isStarted, sessionStartedAt being set and
\* sessionDeadline being set go together, and when they are set and
\* durationMinutes is not negative, startTime <= sessionStartedAt <=
\* sessionDeadline <= endTime.
C30_StartedFieldsAgree ==
  \A i \in DOMAIN interviews :
    LET interview == interviews[i] IN
    /\ interview.isStarted <=> interview.sessionStartedAt # Null
    /\ interview.isStarted <=> interview.sessionDeadline # Null
    /\ (interview.isStarted /\ MinutesDenoted(interview.durationMinutes) >= 0) =>
         /\ interview.startTime <= interview.sessionStartedAt[1]
         /\ interview.sessionStartedAt[1] <= interview.sessionDeadline[1]
         /\ interview.sessionDeadline[1] <= interview.endTime

\* A created record with a duration of one minute was started inside its
\* window by a login, its deadline a minute later and before the window ends
C30_Witness ==
  /\ Exists(clientId) /\ clientId \in CreatedIds
  /\ Stored(clientId).isStarted
  /\ Stored(clientId).startTime < Stored(clientId).sessionStartedAt[1]
  /\ Stored(clientId).sessionStartedAt[1] < Stored(clientId).sessionDeadline[1]
  /\ Stored(clientId).sessionDeadline[1] < Stored(clientId).endTime

----------------------------------------------------------------------------
(* Properties of the voice interview engine: turns on an ended session *)

\* C31: a send-audio call with a non-empty text on a session that is no
\* longer active is processed all the same: one candidate and one AI message
\* are appended, the transcript write is issued and isActive stays false;
\* with the cursor at 7 the call returns the closing text with sessionEnded
\* true and leaves the cursor, below 7 it moves the cursor on and returns
\* sessionEnded false.
C31_TurnsOnEndedSession ==
  [][\A s \in DOMAIN sessions, spoken \in CandidateTexts :
       (SendAudio(s, spoken) /\ ~Falsy(spoken) /\ ~sessions[s].isActive) =>
         LET was == sessions[s]
             is == sessions'[s]
             n == Len(was.messages)
             last == Len(DEFAULT_QUESTIONS) - 1
         IN  /\ Len(is.messages) = n + 2
             /\ is.messages[n + 1].role = "candidate"
             /\ is.messages[n + 1].text = spoken
             /\ is.messages[n + 2].role = "ai"
             /\ ~is.isActive
             /\ Len(pending') = Len(pending) + 1
             /\ LET call == pending'[Len(pending')] IN
                /\ call.content.json.messages = is.messages
                /\ call.awaiting # Null
                /\ IF was.currentQuestionIndex = last
                   THEN /\ is.currentQuestionIndex = last
                        /\ call.awaiting[1].result.aiResponse = AI_RESPONSES.closing
                        /\ call.awaiting[1].result.sessionEnded
                        /\ is.messages[n + 2].text = AI_RESPONSES.closing
                   ELSE /\ is.currentQuestionIndex = was.currentQuestionIndex + 1
                        /\ call.awaiting[1].result.aiResponse =
                             AI_RESPONSES.acknowledgment
                        /\ ~call.awaiting[1].result.sessionEnded
                        /\ call.awaiting[1].result.nextQuestion =
                             DEFAULT_QUESTIONS[is.currentQuestionIndex + 1]]_vars

\* A ninth answer was given to a session ended by its eighth, answered with
\* the closing text again and saved with all nineteen messages
C31_Witness ==
  /\ IsTurnResponse(vres)
  /\ vres.body[1].sessionEnded
  /\ Len(vres.body[1].messages) = 3 + 2 * Len(DEFAULT_QUESTIONS)
  /\ \E s \in DOMAIN sessions :
       /\ sessions[s].messages = vres.body[1].messages
       /\ sessions[s].currentQuestionIndex = Len(DEFAULT_QUESTIONS) - 1
       /\ ~sessions[s].isActive
       /\ GetTranscriptOf(files, sessions[s].interviewId, s) # Null
       /\ GetTranscriptOf(files, sessions[s].interviewId, s)[1].messages =
            sessions[s].messages

----------------------------------------------------------------------------
(* Properties of the session lifecycle: PATCH without precondition *)

\* C32: a PATCH carries no password and is accepted whatever the record's
\* state and the time: with isUsed true it marks the record used, started
\* or not, before startTime or after; on a used record it still stores a
\* currentQuestionIndex in [0,7]; it changes no field but isUsed and
\* currentQuestionIndex and no other record; and every login with the
\* record's password on a used record is refused as expired, inside
\* [startTime, endTime] too.
C32_PatchUnconditional ==
  [][/\ \A body \in PatchInputs :
          (Patch(clientId, body[1], body[2]) /\ Exists(clientId)) =>
            /\ DOMAIN interviews' = DOMAIN interviews
            /\ \A i \in DOMAIN interviews \ {clientId} :
                 interviews'[i] = interviews[i]
            /\ \A f \in DOMAIN Stored(clientId) \ {"isUsed", "currentQuestionIndex"} :
                 interviews'[clientId][f] = Stored(clientId)[f]
            /\ body[1] = Some(TRUE) =>
                 /\ res'.status = 200
                 /\ interviews'[clientId].isUsed
            /\ (/\ Stored(clientId).isUsed
                /\ body[1] # Some(FALSE)
                /\ body[2] # Null /\ StandsForInteger(body[2][1])
                /\ IntegerStoodFor(body[2][1]) \in 0..7) =>
                 /\ res'.status = 200
                 /\ interviews'[clientId].currentQuestionIndex =
                      QuestionIndexText(IntegerStoodFor(body[2][1]))
     /\ \A p \in PasswordsFor(clientId) :
          (CorrectLogin(p) /\ Stored(clientId).isUsed) =>
            /\ res'.status = 403 /\ res'.type = "expired"
            /\ interviews' = interviews]_vars

\* A created record was marked used without ever being started; a login
\* with its password inside its window is refused as expired
C32_Witness ==
  /\ clientId \in CreatedIds /\ Exists(clientId)
  /\ Stored(clientId).isUsed /\ ~Stored(clientId).isStarted
  /\ Stored(clientId).startTime <= now /\ now <= Stored(clientId).endTime
  /\ req.op = "login" /\ req.password = Stored(clientId).password
  /\ res.status = 403 /\ res.type = "expired"

----------------------------------------------------------------------------
(* Properties of the two engines together *)

\* C33: a step that changes a voice session, a transcript or a write in
\* flight changes no Interview record, and a step that changes a record
\* changes no voice session, transcript or write; start-voice with an
\* interview id succeeds and adds a session whatever the record of that id
\* is (used, past its deadline, absent) and however many sessions the id
\* has, and a turn of a session is processed and answered likewise.
C33_EnginesIndependent ==
  [][/\ <<sessions, files, pending>>' # <<sessions, files, pending>> =>
          interviews' = interviews
     /\ interviews' # interviews =>
          <<sessions, files, pending, vres>>' = <<sessions, files, pending, vres>>
     /\ \A password \in PasswordsFor(clientId), body \in JointPatchInputs :
          (Login(clientId, password) \/ Patch(clientId, body[1], body[2])) =>
            <<sessions, files, pending, vres>>' = <<sessions, files, pending, vres>>
     /\ (/\ StartVoice(InterviewIdText(clientId), << "Ada Lovelace" >>, << "Engineer" >>)
         /\ ~Falsy(InterviewIdText(clientId))) =>
          /\ vres'.status = 200
          /\ Cardinality(DOMAIN sessions') = Cardinality(DOMAIN sessions) + 1
          /\ \A s \in DOMAIN sessions' \ DOMAIN sessions :
               sessions'[s].interviewId = InterviewIdText(clientId)
     /\ \A s \in DOMAIN sessions, spoken \in CandidateTexts :
          (SendAudio(s, spoken) /\ ~Falsy(spoken)) =>
            /\ Len(sessions'[s].messages) = Len(sessions[s].messages) + 2
            /\ Len(pending') = Len(pending) + 1
     /\ \A i \in 1..Len(pending) :
          (Settle(i, TRUE) /\ pending[i].awaiting # Null) =>
            /\ IsTurnResponse(vres')
            /\ files'[pending[i].file] = pending[i].content]_vars

\* The record was started by a login, ran past its deadline and was marked
\* used; two voice sessions were started for its id after that and a turn
\* of one of them was answered
C33_Witness ==
  /\ Exists(clientId)
  /\ Stored(clientId).isUsed /\ Stored(clientId).isStarted
  /\ Stored(clientId).sessionDeadline[1] < now
  /\ Cardinality(DOMAIN sessions) = 2
  /\ \A s \in DOMAIN sessions :
       /\ sessions[s].interviewId = InterviewIdText(clientId)
       /\ sessions[s].startedAt = ToISOString(now)
  /\ IsTurnResponse(vres)

----------------------------------------------------------------------------
(* Properties of the voice interview engine: the count of answers *)

\* C34: in every stored transcript record questionsAnswered is the number of
\* messages with role candidate among the record's messages.
C34_AnswersCounted ==
  \A f \in DOMAIN files :
    JSONParse(files[f]).questionsAnswered = Answers(JSONParse(files[f]).messages)

====
